---- MODULE Spec2Model ----
(***************************************************************************)
(* Model of the media-stream handler of app/api/call_handler.py and of the *)
(* remote services of app/services/sarvam_service.py it calls.             *)
(*                                                                         *)
(* One WebSocket connection is followed.  Its handler is one coroutine:    *)
(* handle_media_stream reads one inbound message at a time and awaits      *)
(* process_audio inline, so the handler is either waiting for a message    *)
(* (pc = "recv") or suspended at an await inside process_audio.  Code      *)
(* between two awaits runs without interleaving and is one action.         *)
(*                                                                         *)
(* Time is in milliseconds.  time.time() is read when a media message is   *)
(* handled (line 285) and again in should_process_speech (line 81); no     *)
(* await separates the two reads, so both read `now`.                      *)
(*                                                                         *)
(* A media frame is a record [id, rms, len]: len is the payload length in  *)
(* bytes and rms the energy audioop.rms gives for the decoded payload.     *)
(* The inbound stream is paced telephony audio: a frame that arrives g ms  *)
(* after the previous message carries g ms of 8 kHz mu-law audio.          *)
(***************************************************************************)
EXTENDS Integers, Sequences, FiniteSets, TLC

VARIABLES
    now,                 \* wall clock at the last inbound media message (ms)
    pc,                  \* position of the connection's handler coroutine
    ws_open,             \* the transport is still connected
    active_connections,  \* registry: connection id -> websocket
    audio_buffers,       \* registry: connection id -> list of frames
    processing_locks,    \* registry: connection id -> bool
    speech_states,       \* registry: connection id -> <<>> or <<[speech_start, last_speech]>>
    background_tasks,    \* registry: connection id -> task (never filled by the code)
    loc,                 \* locals of the process_audio invocation in flight
    inflight,            \* process_audio executions past the guard, not yet at finally's end
    submitted,           \* the buffers submitted to transcription, in order
    hist,                \* the inbound media and stop messages handled so far
    last,                \* what the handling of the last media or stop message did
    codec                \* one sample on its way through the mu-law codec

vars == <<now, pc, ws_open, active_connections, audio_buffers, processing_locks,
          speech_states, background_tasks, loc, inflight, submitted, hist, last,
          codec>>

registries == <<active_connections, audio_buffers, processing_locks,
                speech_states, background_tasks>>

(***************************************************************************)
(* Program constants                                                       *)
(***************************************************************************)
SILENCE_THRESHOLD == 200
MIN_SPEECH_DURATION_MS == 1000
MAX_SPEECH_DURATION_MS == 15000
SILENCE_DURATION_MS == 1000
SAMPLES_PER_MS == 8
chunk_size == 640

(***************************************************************************)
(* Bounds and input sets                                                   *)
(***************************************************************************)
\* Inbound media and stop messages handled on the connection.
MaxMsgs == 4

\* Time between two inbound messages (ms).
Gaps == {600, 1100, 15000}

\* Energy of a frame: just below and at the silence threshold.
RmsLevels == {199, 200}

\* Language codes the transcription service reports.
Langs == {"en-IN", "hi-IN"}

\* WAV responses of the synthesis service.
TtsWavs == {[nchannels |-> 1, sampwidth |-> 2, framerate |-> 8000, nframes |-> 700]}

\* Longest mu-law response of the framing specification (bytes).
MaxRespLen == 1930

\* WAV responses of every length up to MaxRespLen (8 kHz, mono, 16 bit).
TtsWavsWide ==
    {[nchannels |-> 1, sampwidth |-> 2, framerate |-> 8000, nframes |-> n] :
        n \in 1..MaxRespLen}

\* connection_id = str(id(websocket))
Conn == "ws1"

StreamSid == "MZ1"

(***************************************************************************)
(* Pure functions of call_handler.py                                       *)
(***************************************************************************)
\* is_silence: rms of the decoded payload below the threshold.
IsSilence(f) == f.rms < SILENCE_THRESHOLD

RECURSIVE TotalBytes(_)
TotalBytes(buf) ==
    IF buf = <<>> THEN 0 ELSE Head(buf).len + TotalBytes(Tail(buf))

\* get_audio_duration_ms: (total_bytes / 2) / SAMPLES_PER_MS.  Every payload
\* length of the model is a multiple of 16, so the float division is exact.
GetAudioDurationMs(buf) == (TotalBytes(buf) \div 2) \div SAMPLES_PER_MS

\* The two durations should_process_speech computes from a state.
SpeechDuration(state, current_time) ==
    IF state = <<>> THEN 0 ELSE current_time - state[1].speech_start

SilenceDuration(state, current_time) ==
    IF state = <<>> THEN 0 ELSE current_time - state[1].last_speech

ShouldProcessSpeechNoSilence(state, current_time) ==
    /\ state # <<>>
    /\ SpeechDuration(state, current_time) >= MIN_SPEECH_DURATION_MS
    /\ SpeechDuration(state, current_time) >= MAX_SPEECH_DURATION_MS

ShouldProcessSpeechNoCap(state, current_time) ==
    /\ state # <<>>
    /\ SpeechDuration(state, current_time) >= MIN_SPEECH_DURATION_MS
    /\ SilenceDuration(state, current_time) >= SILENCE_DURATION_MS

\* should_process_speech
ShouldProcessSpeech(state, current_time) ==
    /\ state # <<>>
    /\ SpeechDuration(state, current_time) >= MIN_SPEECH_DURATION_MS
    /\ \/ SilenceDuration(state, current_time) >= SILENCE_DURATION_MS
       \/ SpeechDuration(state, current_time) >= MAX_SPEECH_DURATION_MS

\* convert_to_mulaw: the length of the mu-law data of a WAV response
\* (one byte per 8 kHz mono sample).
MuLawLen(wav) ==
    IF wav.framerate = 8000 THEN wav.nframes
    ELSE (wav.nframes * 8000) \div wav.framerate

(***************************************************************************)
(* The mu-law codec (audioop.ulaw2lin and audioop.lin2ulaw, G.711)         *)
(***************************************************************************)
\* The bias of the 16-bit mu-law scale (0x84).
BIAS == 132

\* The largest magnitude lin2ulaw encodes.
CLIP == 32635

\* The upper ends of the eight segments of the 14-bit scale.
seg_uend == <<63, 127, 255, 511, 1023, 2047, 4095, 8191>>

Pow2(n) == IF n = 0 THEN 1 ELSE IF n = 1 THEN 2 ELSE IF n = 2 THEN 4
           ELSE IF n = 3 THEN 8 ELSE IF n = 4 THEN 16 ELSE IF n = 5 THEN 32
           ELSE IF n = 6 THEN 64 ELSE IF n = 7 THEN 128 ELSE 256

Ulaw2LinNoBias(u) ==
    LET c == 255 - u
        t == ((c % 16) * 8) * Pow2((c \div 16) % 8)
    IN IF c >= 128 THEN 0 - t ELSE t

\* audioop.ulaw2lin(chunk, 2) on one byte: the byte is complemented, its
\* mantissa and segment give the biased magnitude, its top bit the sign.
Ulaw2Lin(u) ==
    LET c == 255 - u
        t == (((c % 16) * 8) + BIAS) * Pow2((c \div 16) % 8)
    IN IF c >= 128 THEN BIAS - t ELSE t - BIAS

\* The first segment whose upper end is not below val, 8 when there is none.
Search(val) ==
    IF \E i \in 1..8 : val <= seg_uend[i]
    THEN (CHOOSE i \in 1..8 :
              val <= seg_uend[i] /\ \A j \in 1..(i - 1) : val > seg_uend[j]) - 1
    ELSE 8

\* audioop.lin2ulaw(pcm_data, 2) on one 16-bit sample: the sample is scaled
\* to 14 bits, its magnitude clipped and biased, and the segment and the
\* four bits below the leading one are combined and complemented.
Lin2Ulaw(sample) ==
    LET pcm_val == sample \div 4
        neg == pcm_val < 0
        mag0 == IF neg THEN 0 - pcm_val ELSE pcm_val
        mag == (IF mag0 > CLIP THEN CLIP ELSE mag0) + (BIAS \div 4)
        seg == Search(mag)
        uval == (seg * 16) + ((mag \div Pow2(seg + 1)) % 16)
    IN IF seg >= 8 THEN (IF neg THEN 0 ELSE 128)
       ELSE IF neg THEN 127 - uval ELSE 255 - uval

NoCodec == [stage |-> "idle", x |-> 0, pcm |-> 0, y |-> 0]

MinNoClamp(a, b) == a

Min(a, b) == IF a < b THEN a ELSE b

(***************************************************************************)
(* The processing guard                                                    *)
(***************************************************************************)
GuardHeld(locks, c) == IF c \in DOMAIN locks THEN locks[c] ELSE FALSE

AcquireNoSet(locks, c) == locks

\* processing_locks[connection_id] = True
Acquire(locks, c) == [locks EXCEPT ![c] = TRUE]

ReleaseNoClear(locks, c) == locks

\* finally: processing_locks[connection_id] = False
Release(locks, c) == [locks EXCEPT ![c] = FALSE]

(***************************************************************************)
(* Locals of process_audio                                                 *)
(***************************************************************************)
NoLoc ==
    [ media_data          |-> <<>>,
      duration_ms         |-> 0,
      wav_data            |-> <<>>,
      english_text        |-> <<>>,
      original_language   |-> "None",
      english_response    |-> <<>>,
      translated_response |-> <<>>,
      tts_text            |-> <<>>,
      mu_law_len          |-> 0,
      i                   |-> 0,
      exc                 |-> "none",  \* the except clause entered, if any
      closed_at           |-> 0,       \* messages sent when a send found the connection closed
      calls               |-> <<>>,    \* external calls made, in order
      errs                |-> {},      \* external calls that failed
      sent                |-> <<>> ]   \* outbound media messages sent

NoLast ==
    [ ev |-> "none", silent |-> FALSE, appended |-> FALSE, nonempty |-> FALSE,
      ready |-> FALSE, sd |-> 0, sil |-> 0, dur |-> 0, res |-> "none" ]

Init ==
    /\ now = 0
    /\ pc = "recv"
    /\ ws_open = TRUE
    /\ active_connections = [c \in {Conn} |-> Conn]
    /\ audio_buffers = [c \in {Conn} |-> <<>>]
    /\ processing_locks = [c \in {Conn} |-> FALSE]
    /\ speech_states = [c \in {Conn} |-> <<>>]
    /\ background_tasks = <<>>
    /\ loc = NoLoc
    /\ inflight = 0
    /\ submitted = <<>>
    /\ hist = <<>>
    /\ last = NoLast
    /\ codec = NoCodec

(***************************************************************************)
(* process_audio up to its first await                                     *)
(***************************************************************************)
\* What the synchronous head of process_audio does with buffer buf:
\* the guard check, the empty and short-buffer returns, the WAV encoding and
\* the debug save (which raises when save_ok is false), the flush.
EntryOutcome(locks, buf, save_ok) ==
    IF GuardHeld(locks, Conn) THEN "guard_held"
    ELSE IF buf = <<>> THEN "empty"
    ELSE IF GetAudioDurationMs(buf) < MIN_SPEECH_DURATION_MS THEN "short"
    ELSE IF ~save_ok THEN "error"
    ELSE "flushed"

FlushedBufferKept(buf) == buf

\* audio_buffers[connection_id] = []  (line 161)
FlushedBuffer(buf) == <<>>

BufferAfterErrorKept(buf) == buf

\* except Exception (line 248): the buffer and the speech state are cleared
\* only when duration_ms has reached the cap.
BufferAfterError(buf) ==
    IF GetAudioDurationMs(buf) >= MAX_SPEECH_DURATION_MS THEN <<>> ELSE buf

StateAfterErrorKept(buf, state) == state

StateAfterError(buf, state) ==
    IF GetAudioDurationMs(buf) >= MAX_SPEECH_DURATION_MS THEN <<>> ELSE state

PcAfterEntryPropagating(res) ==
    IF res = "flushed" THEN "transcribe"
    ELSE IF res = "error" THEN "closed" ELSE "recv"

\* Where the handler is after the synchronous head of process_audio: at the
\* transcription await after a flush, else back in its loop; the except
\* clauses of lines 248 and 255 catch what the head raises.
PcAfterEntry(res) == IF res = "flushed" THEN "transcribe" ELSE "recv"

\* process_audio(websocket, connection_id, media_data), called with the
\* connection's buffer buf and speech state `state`, up to the first await
\* (transcription) or to its return.
ProcessAudioEnter(buf, state, media_data, save_ok) ==
    LET res == EntryOutcome(processing_locks, buf, save_ok) IN
    IF res = "flushed"
    THEN /\ audio_buffers' = [audio_buffers EXCEPT ![Conn] = FlushedBuffer(buf)]
         /\ speech_states' = [speech_states EXCEPT ![Conn] = <<>>]
         /\ processing_locks' = Acquire(processing_locks, Conn)
         /\ inflight' = inflight + 1
         /\ submitted' = Append(submitted, buf)
         /\ loc' = [NoLoc EXCEPT !.media_data = media_data,
                                 !.duration_ms = GetAudioDurationMs(buf),
                                 !.wav_data = buf,
                                 !.calls = <<"transcribe">>]
         /\ pc' = PcAfterEntry(res)
    ELSE /\ audio_buffers' = [audio_buffers EXCEPT ![Conn] =
                IF res = "error" THEN BufferAfterError(buf) ELSE buf]
         /\ speech_states' = [speech_states EXCEPT ![Conn] =
                IF res = "error" THEN StateAfterError(buf, state) ELSE state]
         /\ processing_locks' =
                IF res = "guard_held" THEN processing_locks
                ELSE Release(Acquire(processing_locks, Conn), Conn)
         /\ pc' = PcAfterEntry(res)
         /\ UNCHANGED <<inflight, submitted, loc>>

(***************************************************************************)
(* handle_media_stream: one inbound message                                *)
(***************************************************************************)
CanReceive == pc = "recv" /\ ws_open

AppendedAlways(is_silent, state) == TRUE

\* A voiced frame is appended to the buffer; a silent frame only when a
\* speech state exists ("if state:", line 311).
Appended(is_silent, state) == ~is_silent \/ state # <<>>

\* event == "media": a frame with energy rms arrives gap ms after the
\* previous message.
Media(rms, gap, save_ok) ==
    /\ CanReceive
    /\ Len(hist) < MaxMsgs
    /\ LET current_time == now + gap
           f == [id |-> Len(hist) + 1, rms |-> rms, len |-> SAMPLES_PER_MS * gap]
           media_data == [event |-> "media", streamSid |-> StreamSid]
           is_silent == IsSilence(f)
           state == speech_states[Conn]
           new_state ==
               IF ~is_silent
               THEN IF state = <<>>
                    THEN << [speech_start |-> current_time,
                             last_speech |-> current_time] >>
                    ELSE << [state[1] EXCEPT !.last_speech = current_time] >>
               ELSE state
           appended == Appended(is_silent, state)
           buf == IF appended THEN Append(audio_buffers[Conn], f)
                  ELSE audio_buffers[Conn]
           ready == appended /\ ShouldProcessSpeech(new_state, current_time)
       IN
       /\ now' = current_time
       /\ hist' = Append(hist, [ev |-> "media", rms |-> rms, t |-> current_time,
                                len |-> f.len, sid |-> media_data.streamSid])
       /\ IF ready
          THEN ProcessAudioEnter(buf, new_state, media_data, save_ok)
          ELSE /\ audio_buffers' = [audio_buffers EXCEPT ![Conn] = buf]
               /\ speech_states' = [speech_states EXCEPT ![Conn] = new_state]
               /\ UNCHANGED <<processing_locks, inflight, submitted, loc, pc>>
       /\ last' = [ ev |-> "media", silent |-> is_silent, appended |-> appended,
                    nonempty |-> audio_buffers[Conn] # <<>>,
                    ready |-> ready,
                    sd |-> SpeechDuration(new_state, current_time),
                    sil |-> SilenceDuration(new_state, current_time),
                    dur |-> GetAudioDurationMs(buf),
                    res |-> IF ~appended THEN "idle_silent"
                            ELSE IF ~ready THEN "not_ready"
                            ELSE EntryOutcome(processing_locks, buf, save_ok) ]
    /\ UNCHANGED <<ws_open, active_connections, background_tasks, codec>>

\* event == "stop": process any remaining audio.
Stop(save_ok) ==
    /\ CanReceive
    /\ Len(hist) < MaxMsgs
    /\ LET buf == audio_buffers[Conn]
           state == speech_states[Conn]
           media_data == [event |-> "stop", streamSid |-> StreamSid]
       IN
       /\ hist' = Append(hist, [ev |-> "stop", rms |-> 0, t |-> now, len |-> 0,
                                sid |-> media_data.streamSid])
       /\ IF buf # <<>>
          THEN ProcessAudioEnter(buf, state, media_data, save_ok)
          ELSE UNCHANGED <<audio_buffers, speech_states, processing_locks,
                           inflight, submitted, loc, pc>>
       /\ last' = [ ev |-> "stop", silent |-> FALSE, appended |-> FALSE,
                    nonempty |-> buf # <<>>,
                    ready |-> ShouldProcessSpeech(state, now),
                    sd |-> SpeechDuration(state, now),
                    sil |-> SilenceDuration(state, now),
                    dur |-> GetAudioDurationMs(buf),
                    res |-> IF buf = <<>> THEN "no_audio"
                            ELSE EntryOutcome(processing_locks, buf, save_ok) ]
    /\ UNCHANGED <<now, ws_open, active_connections, background_tasks, codec>>

\* event == "start": logged only.
StartEvent ==
    /\ CanReceive
    /\ UNCHANGED vars

\* event == "mark": logged only.
MarkEvent ==
    /\ CanReceive
    /\ UNCHANGED vars

RemoveEntryKept(reg, c) == reg

\* if connection_id in reg: del reg[connection_id]
RemoveEntry(reg, c) == [k \in (DOMAIN reg) \ {c} |-> reg[k]]

\* The finally clause of handle_media_stream: the connection's entry is
\* removed from every registry and the websocket is closed.
Cleanup(locks) ==
    /\ pc' = "closed"
    /\ ws_open' = FALSE
    /\ active_connections' = RemoveEntry(active_connections, Conn)
    /\ audio_buffers' = RemoveEntry(audio_buffers, Conn)
    /\ processing_locks' = RemoveEntry(locks, Conn)
    /\ speech_states' = RemoveEntry(speech_states, Conn)
    /\ background_tasks' = RemoveEntry(background_tasks, Conn)
    /\ UNCHANGED codec

\* receive_text raises (the peer disconnected, a transport error): the except
\* clause logs it and the finally clause removes the connection's entries.
Disconnect ==
    /\ pc = "recv"
    /\ Cleanup(processing_locks)
    /\ UNCHANGED <<now, loc, inflight, submitted, hist, last>>

\* An inbound message that json.loads, the ["media"]["payload"] lookup or
\* base64.b64decode rejects: the exception leaves the while loop for the
\* except clause of line 330, and the finally clause ends the connection.
Malformed ==
    /\ CanReceive
    /\ Cleanup(processing_locks)
    /\ last' = [last EXCEPT !.ev = "malformed"]
    /\ UNCHANGED <<now, loc, inflight, submitted, hist>>

\* The handler task is cancelled at an await inside process_audio (the
\* server shuts down): CancelledError passes the except Exception clauses,
\* the finally clause of process_audio releases the guard, then the finally
\* clause of handle_media_stream runs.
Cancel ==
    /\ pc \in {"transcribe", "chat", "translate", "tts_translate", "tts", "send"}
    /\ Cleanup(Release(processing_locks, Conn))
    /\ inflight' = inflight - 1
    /\ loc' = NoLoc
    /\ UNCHANGED <<now, submitted, hist, last>>

(***************************************************************************)
(* process_audio after the flush: the remote calls                         *)
(***************************************************************************)
HasSpeechAlways(text) == TRUE

\* if english_text and len(english_text.strip()) > 0
HasSpeech(text) == text # <<>>

\* if original_language != "en-IN" or original_language is not None
\* (None is modelled as the string "None")
NeedsTranslation(lang) == lang # "en-IN" \/ lang # "None"

\* translate_text: the translation on success, the input text on failure.
TranslateText(text, target, ok) == IF ok THEN Append(text, target) ELSE text

\* get_openai_response: the completion, or the apology on failure.
OpenAIResponse(ok) == IF ok THEN <<"reply">> ELSE <<"apology">>

\* if response_audio and websocket in active_connections.values()
ShouldSend(has_audio) ==
    has_audio /\ Conn \in DOMAIN active_connections

OutboundTagConn(media_data) == Conn

\* "streamSid": media_data["streamSid"]
OutboundTag(media_data) == media_data.streamSid

\* except Exception as e: logger.error("Error handling response audio")
InnerExcept == "response_audio"

SendErrorContinue == "send"

\* Where a raising send_text leaves process_audio: the inner except clause
\* is outside the chunk loop, so the loop is left for the finally clause.
SendErrorExit == "finally"

Goto(p) == pc' = p

PipelineUnchanged ==
    UNCHANGED <<now, ws_open, registries, inflight, submitted, hist, last,
                codec>>

\* transcribe_and_translate_audio returns: (None, None) on an HTTP error, an
\* exception or an empty transcript, else (transcript, language_code).
TranscribeReturn(outcome, lang) ==
    /\ pc = "transcribe"
    /\ LET text == IF outcome = "ok" THEN <<"hello">> ELSE <<>>
           l1 == [loc EXCEPT !.english_text = text,
                             !.original_language =
                                 IF outcome = "ok" THEN lang ELSE "None",
                             !.errs = IF outcome = "fail"
                                      THEN @ \cup {"transcribe"} ELSE @]
       IN IF HasSpeech(text)
          THEN /\ loc' = [l1 EXCEPT !.calls = Append(@, "chat")]
               /\ Goto("chat")
          ELSE /\ loc' = l1
               /\ Goto("finally")
    /\ PipelineUnchanged

\* get_openai_response returns; the reply is translated "if needed".
ChatReturn(ok) ==
    /\ pc = "chat"
    /\ LET l1 == [loc EXCEPT !.english_response = OpenAIResponse(ok),
                             !.errs = IF ok THEN @ ELSE @ \cup {"chat"}]
       IN IF NeedsTranslation(loc.original_language)
          THEN /\ loc' = [l1 EXCEPT !.calls = Append(@, "translate")]
               /\ Goto("translate")
          ELSE /\ loc' = [l1 EXCEPT !.translated_response = l1.english_response,
                                    !.tts_text = l1.english_response,
                                    !.calls = Append(@, "tts")]
               /\ Goto("tts")
    /\ PipelineUnchanged

\* translate_text returns to process_audio; text_to_speech is entered: it
\* translates its text again when the target language is not "en-IN", and
\* else posts it to the synthesis service.
TranslateReturn(ok) ==
    /\ pc = "translate"
    /\ LET tr == TranslateText(loc.english_response, loc.original_language, ok)
           l1 == [loc EXCEPT !.translated_response = tr,
                             !.tts_text = tr,
                             !.errs = IF ok THEN @ ELSE @ \cup {"translate"}]
       IN IF loc.original_language # "en-IN"
          THEN /\ loc' = [l1 EXCEPT !.calls = Append(@, "translate")]
               /\ Goto("tts_translate")
          ELSE /\ loc' = [l1 EXCEPT !.calls = Append(@, "tts")]
               /\ Goto("tts")
    /\ PipelineUnchanged

\* translate_text returns inside text_to_speech.
TtsTranslateReturn(ok) ==
    /\ pc = "tts_translate"
    /\ loc' = [loc EXCEPT
                 !.tts_text = TranslateText(@, loc.original_language, ok),
                 !.errs = IF ok THEN @ ELSE @ \cup {"translate"},
                 !.calls = Append(@, "tts")]
    /\ Goto("tts")
    /\ PipelineUnchanged

\* text_to_speech returns None (outcome "fail") or base64 audio; the audio
\* is decoded, saved and converted to mu-law, which raises for outcome "bad"
\* (a malformed WAV, a failed debug save) into the inner except clause.
TtsReturn(outcome, wav) ==
    /\ pc = "tts"
    /\ LET l1 == [loc EXCEPT !.errs = IF outcome = "fail"
                                      THEN @ \cup {"tts"} ELSE @]
       IN IF ShouldSend(outcome # "fail") /\ outcome = "ok" /\ MuLawLen(wav) > 0
          THEN /\ loc' = [l1 EXCEPT !.mu_law_len = MuLawLen(wav), !.i = 0]
               /\ Goto("send")
          ELSE /\ loc' = [l1 EXCEPT !.exc = IF outcome = "bad"
                                           THEN InnerExcept ELSE @]
               /\ Goto("finally")
    /\ PipelineUnchanged

\* One iteration of the chunk loop: send_text, then sleep 20 ms.  A send on
\* a closed connection raises into the inner except clause.
SendChunk(ok) ==
    /\ pc = "send"
    /\ ok => ws_open
    /\ IF ok
       THEN /\ loc' = [loc EXCEPT
                         !.sent = Append(@, [event |-> "media",
                                             streamSid |-> OutboundTag(loc.media_data),
                                             lo |-> loc.i,
                                             hi |-> Min(loc.i + chunk_size,
                                                        loc.mu_law_len)]),
                         !.i = @ + chunk_size]
            /\ Goto(IF loc.i + chunk_size < loc.mu_law_len THEN "send" ELSE "finally")
            /\ UNCHANGED ws_open
       ELSE /\ loc' = [loc EXCEPT !.exc = InnerExcept,
                                   !.closed_at = Len(loc.sent)]
            /\ Goto(SendErrorExit)
            /\ ws_open' = FALSE
    /\ UNCHANGED <<now, registries, inflight, submitted, hist, last, codec>>

\* finally: the guard is released and process_audio returns to the loop.
Finally ==
    /\ pc = "finally"
    /\ processing_locks' = Release(processing_locks, Conn)
    /\ inflight' = inflight - 1
    /\ loc' = NoLoc
    /\ Goto("recv")
    /\ UNCHANGED <<now, ws_open, active_connections, audio_buffers,
                   speech_states, background_tasks, submitted, hist, last,
                   codec>>

Next ==
    \/ \E rms \in RmsLevels, gap \in Gaps, save_ok \in BOOLEAN :
           Media(rms, gap, save_ok)
    \/ \E save_ok \in BOOLEAN : Stop(save_ok)
    \/ StartEvent
    \/ MarkEvent
    \/ Disconnect
    \/ Malformed
    \/ Cancel
    \/ \E outcome \in {"ok", "empty", "fail"}, lang \in Langs :
           TranscribeReturn(outcome, lang)
    \/ \E ok \in BOOLEAN : ChatReturn(ok)
    \/ \E ok \in BOOLEAN : TranslateReturn(ok)
    \/ \E ok \in BOOLEAN : TtsTranslateReturn(ok)
    \/ \E outcome \in {"ok", "bad", "fail"}, wav \in TtsWavs :
           TtsReturn(outcome, wav)
    \/ \E ok \in BOOLEAN : SendChunk(ok)
    \/ Finally

Spec == Init /\ [][Next]_vars

\* The framing of responses of every length: a voiced stream is cut at the
\* 15 s cap, every remote call succeeds, and the synthesis service answers
\* with a WAV of any length up to MaxRespLen; a send may find the
\* connection closed.
NextSend ==
    \/ Media(SILENCE_THRESHOLD, MAX_SPEECH_DURATION_MS, TRUE)
    \/ TranscribeReturn("ok", "en-IN")
    \/ ChatReturn(TRUE)
    \/ TranslateReturn(TRUE)
    \/ \E wav \in TtsWavsWide : TtsReturn("ok", wav)
    \/ \E ok \in BOOLEAN : SendChunk(ok)
    \/ Finally

SpecSend == Init /\ [][NextSend]_vars

\* The connection while media frames keep arriving and every remote call
\* returns or fails: no stop message, no disconnect, no cancellation.
MediaArrives ==
    \E rms \in RmsLevels, gap \in Gaps, save_ok \in BOOLEAN :
        Media(rms, gap, save_ok)

TranscribeEnds ==
    \E outcome \in {"ok", "empty", "fail"}, lang \in Langs :
        TranscribeReturn(outcome, lang)

ChatEnds == \E ok \in BOOLEAN : ChatReturn(ok)

TranslateEnds == \E ok \in BOOLEAN : TranslateReturn(ok)

TtsTranslateEnds == \E ok \in BOOLEAN : TtsTranslateReturn(ok)

TtsEnds ==
    \E outcome \in {"ok", "bad", "fail"}, wav \in TtsWavs :
        TtsReturn(outcome, wav)

SendEnds == \E ok \in BOOLEAN : SendChunk(ok)

NextLive ==
    \/ MediaArrives
    \/ TranscribeEnds
    \/ ChatEnds
    \/ TranslateEnds
    \/ TtsTranslateEnds
    \/ TtsEnds
    \/ SendEnds
    \/ Finally

\* The handler reads the next frame whenever it is back in its loop, every
\* awaited remote call and send ends, and the finally clause runs.
SpecLive ==
    /\ Init
    /\ [][NextLive]_vars
    /\ WF_vars(MediaArrives)
    /\ WF_vars(TranscribeEnds)
    /\ WF_vars(ChatEnds)
    /\ WF_vars(TranslateEnds)
    /\ WF_vars(TtsTranslateEnds)
    /\ WF_vars(TtsEnds)
    /\ WF_vars(SendEnds)
    /\ WF_vars(Finally)

\* One mu-law byte is decoded as is_silence and convert_audio decode the
\* inbound payload, and the sample is encoded as convert_to_mulaw encodes
\* the response; the handler itself stays where Init put it.
InitCodec ==
    /\ now = 0
    /\ pc = "recv"
    /\ ws_open = TRUE
    /\ active_connections = [c \in {Conn} |-> Conn]
    /\ audio_buffers = [c \in {Conn} |-> <<>>]
    /\ processing_locks = [c \in {Conn} |-> FALSE]
    /\ speech_states = [c \in {Conn} |-> <<>>]
    /\ background_tasks = <<>>
    /\ loc = NoLoc
    /\ inflight = 0
    /\ submitted = <<>>
    /\ hist = <<>>
    /\ last = NoLast
    /\ codec \in {[stage |-> "ulaw", x |-> u, pcm |-> 0, y |-> 0] : u \in 0..255}

CodecUnchanged ==
    UNCHANGED <<now, pc, ws_open, registries, loc, inflight, submitted, hist,
                last>>

\* pcm_data = audioop.ulaw2lin(audio_data, 2)
Decode ==
    /\ codec.stage = "ulaw"
    /\ codec' = [codec EXCEPT !.stage = "pcm", !.pcm = Ulaw2Lin(codec.x)]
    /\ CodecUnchanged

\* mu_law_data = audioop.lin2ulaw(pcm_data, 2)
Encode ==
    /\ codec.stage = "pcm"
    /\ codec' = [codec EXCEPT !.stage = "ulaw_again", !.y = Lin2Ulaw(codec.pcm)]
    /\ CodecUnchanged

NextCodec ==
    \/ Decode
    \/ Encode

SpecCodec == InitCodec /\ [][NextCodec]_vars

(***************************************************************************)
(* Helpers of the properties                                               *)
(***************************************************************************)
PipelinePcs ==
    {"transcribe", "chat", "translate", "tts_translate", "tts", "send", "finally"}

Cleared == speech_states[Conn] = <<>> /\ audio_buffers[Conn] = <<>>

\* The utterance submitted last.
LastSubmitted == submitted[Len(submitted)]

\* u is a run of voiced frames followed by silent frames only.
BurstThenSilence(u) ==
    \E k \in 1..(Len(u) - 1) :
        /\ \A i \in 1..k : ~IsSilence(u[i])
        /\ \A i \in (k + 1)..Len(u) : IsSilence(u[i])

RECURSIVE VoicedBytes(_)
VoicedBytes(u) ==
    IF u = <<>> THEN 0
    ELSE (IF IsSilence(Head(u)) THEN 0 ELSE Head(u).len) + VoicedBytes(Tail(u))

\* The frame ids of u are first, first + 1, ..., last.
FrameIds(u, first, lastId) ==
    /\ Len(u) = lastId - first + 1
    /\ \A i \in 1..Len(u) : u[i].id = first + i - 1

\* The stream so far is media frames only: voiced frames spanning vspan ms,
\* then silent frames, the last of them sspan ms after the last voiced one.
VoicedThenSilentStream(vspan, sspan) ==
    /\ \A i \in 1..Len(hist) : hist[i].ev = "media"
    /\ \E k \in 1..(Len(hist) - 1) :
        /\ \A i \in 1..k : hist[i].rms >= SILENCE_THRESHOLD
        /\ \A i \in (k + 1)..Len(hist) : hist[i].rms < SILENCE_THRESHOLD
        /\ hist[k].t - hist[1].t = vspan
        /\ hist[Len(hist)].t - hist[k].t = sspan

\* The stream so far is voiced media frames only.
OnlyVoicedStream ==
    /\ hist # <<>>
    /\ \A i \in 1..Len(hist) :
        hist[i].ev = "media" /\ hist[i].rms >= SILENCE_THRESHOLD

(***************************************************************************)
(* C1..C10                                                                 *)
(***************************************************************************)
\* C1: at most one execution of the utterance pipeline is in flight on the
\* connection, the guard is held for as long as one is, and an invocation of
\* process_audio that finds the guard held runs no pipeline step.
C1_SingleFlight ==
    /\ [](/\ inflight <= 1
          /\ (pc \in PipelinePcs) <=> (inflight = 1)
          /\ (inflight = 1) => GuardHeld(processing_locks, Conn))
    /\ [][(hist' # hist /\ last'.res = "guard_held")
             => UNCHANGED <<pc, loc, inflight, submitted, audio_buffers>>]_vars

C1_Witness ==
    /\ pc = "chat"
    /\ inflight = 1
    /\ GuardHeld(processing_locks, Conn)

\* C2 (as claimed): after a media frame is appended at time now, the buffer is
\* flushed if and only if now - speechStart >= 1000 and (now - lastSpeech >=
\* 1000 or now - speechStart >= 15000).
C2_FlushedIffReady ==
    (last.ev = "media" /\ last.appended)
        => ((last.res = "flushed")
              <=> (last.sd >= 1000 /\ (last.sil >= 1000 \/ last.sd >= 15000)))

\* C3 (as claimed): a voiced burst shorter than 1000 ms that starts from Idle
\* and is followed only by silent frames is never flushed.  The burst is
\* short both by its arrival times (lastSpeech - speechStart) and by the
\* audio its voiced frames carry.
C3_ShortBurstNeverFlushed ==
    ~ /\ last.ev = "media"
      /\ last.res = "flushed"
      /\ BurstThenSilence(LastSubmitted)
      /\ last.sd - last.sil < 1000
      /\ VoicedBytes(LastSubmitted) \div SAMPLES_PER_MS < 1000

C6_ClearedUnconditionally ==
    (pc = "recv" /\ last.ev = "media" /\ last.ready) => Cleared

\* C6 (amended): whenever readiness holds after an append, SpeechState and
\* the buffer are both cleared from then on, whatever the pipeline does, if
\* and only if process_audio flushed the buffer, or the WAV encoding or debug
\* save raised and get_audio_duration_ms had reached 15000; else both are kept.
C6_ClearedIffFlushedOrCapError ==
    (pc # "closed" /\ last.ev = "media" /\ last.ready)
        => /\ Cleared <=> \/ last.res = "flushed"
                          \/ (last.res = "error"
                                /\ last.dur >= MAX_SPEECH_DURATION_MS)
           /\ ~Cleared => /\ speech_states[Conn] # <<>>
                          /\ audio_buffers[Conn] # <<>>

C6_Witness ==
    /\ pc = "recv"
    /\ last.ev = "media"
    /\ last.ready
    /\ last.res = "flushed"
    /\ Cleared

\* C7 (as claimed): on a "stop" event any non-empty buffer is flushed to the
\* pipeline, however short the buffered audio is.
C7_StopFlushesAnyBuffer ==
    (last.ev = "stop" /\ last.nonempty) => last.res = "flushed"

\* C8 (as claimed): if an external call fails while an utterance is processed,
\* then when process_audio returns the buffer and SpeechState still hold the
\* utterance's frames, unless the utterance had reached the 15 s cap, and
\* then they are cleared.
C8_BufferKeptOnFailure ==
    (pc = "finally" /\ loc.errs # {})
        => IF loc.duration_ms >= MAX_SPEECH_DURATION_MS
           THEN Cleared
           ELSE /\ audio_buffers[Conn] = loc.wav_data
                /\ speech_states[Conn] # <<>>

\* C9 (as claimed): if any external call fails for an utterance, no outbound
\* media message is sent for it.
C9_NoSendOnAnyFailure ==
    loc.errs # {} => loc.sent = <<>>

\* C9 (amended): if the transcription or the synthesis call fails for an
\* utterance, no outbound media message is sent for it.
C9_NoSendOnTranscribeOrTtsFailure ==
    (loc.errs \cap {"transcribe", "tts"} # {}) => loc.sent = <<>>

C9_Witness ==
    /\ pc = "finally"
    /\ "tts" \in loc.errs
    /\ loc.sent = <<>>

\* C10 (as claimed): the translate call is made for the reply if and only if
\* the detected language differs from "en-IN"; for "en-IN" no translate call
\* is made and the synthesized text is the chat reply itself.
C10_TranslateIffNotDefault ==
    (pc \in {"translate", "tts_translate", "tts", "send", "finally"}
       /\ loc.english_response # <<>>)
        => /\ (\E i \in 1..Len(loc.calls) : loc.calls[i] = "translate")
                 <=> (loc.original_language # "en-IN")
           /\ (loc.original_language = "en-IN" /\ pc # "translate")
                 => loc.tts_text = loc.english_response

(***************************************************************************)
(* C11..C20                                                                *)
(***************************************************************************)
\* C11: if transcription returns an empty or absent text, the utterance is
\* discarded: transcription is the only external call made for it and no
\* outbound media message is sent.
C11_EmptyTranscriptDiscarded ==
    (pc \in (PipelinePcs \ {"transcribe"}) /\ loc.english_text = <<>>)
        => /\ loc.calls = <<"transcribe">>
           /\ loc.sent = <<>>
           /\ pc = "finally"

C11_Witness ==
    /\ pc = "finally"
    /\ loc.english_text = <<>>
    /\ loc.errs = {}
    /\ loc.calls = <<"transcribe">>
    /\ loc.sent = <<>>

\* The number of chunk_size-byte messages n bytes take: ceil(n / 640).
CeilChunks(n) == (n + 639) \div 640

\* C12: a mu-law response of N bytes sent to completion goes out as exactly
\* ceil(N/640) media messages; message k carries the bytes from 640*(k-1)
\* on, 640 of them for every message but the last and the remainder for the
\* last, so the payloads in sending order are the N bytes.
C12_Framing ==
    (pc = "finally" /\ loc.mu_law_len > 0 /\ loc.i >= loc.mu_law_len)
        => LET n == loc.mu_law_len
               k == Len(loc.sent)
           IN /\ k = CeilChunks(n)
              /\ \A j \in 1..k :
                    /\ loc.sent[j].lo = 640 * (j - 1)
                    /\ loc.sent[j].hi - loc.sent[j].lo =
                          IF j < k THEN 640 ELSE n - 640 * (k - 1)
                    /\ loc.sent[j].hi - loc.sent[j].lo >= 1
              /\ loc.sent[k].hi = n

C12_Witness ==
    /\ pc = "finally"
    /\ loc.mu_law_len = 1281
    /\ loc.i >= loc.mu_law_len
    /\ Len(loc.sent) = 3
    /\ loc.sent[3].hi - loc.sent[3].lo = 1

\* C13: every outbound media message of an utterance carries the stream
\* session identifier of the inbound messages the utterance's frames came
\* with, whether a media frame or a "stop" message started the processing.
C13_TaggedWithStreamSid ==
    \A j \in 1..Len(loc.sent) :
        /\ loc.sent[j].event = "media"
        /\ \A f \in 1..Len(loc.wav_data) :
              loc.sent[j].streamSid = hist[loc.wav_data[f].id].sid

C13_Witness ==
    /\ loc.media_data # <<>>
    /\ loc.media_data.event = "stop"
    /\ Len(loc.sent) = 2

\* C14 (as claimed): if the connection closes while a response is sent, no
\* further frame of the response is sent after the close, and the close is
\* not handled as an error of the utterance.
C14_CloseIsCancellation ==
    (pc \in PipelinePcs /\ ~ws_open)
        => /\ Len(loc.sent) = loc.closed_at
           /\ loc.exc = "none"

\* C14 (amended): if the connection closes while a response is sent, no
\* further frame of the response is sent after the close: the raising send
\* leaves the chunk loop for the inner except clause, which logs it as an
\* error of the response, and process_audio goes to its finally clause.
C14_CloseStopsSending ==
    (pc \in PipelinePcs /\ ~ws_open)
        => /\ pc = "finally"
           /\ Len(loc.sent) = loc.closed_at
           /\ Len(loc.sent) < CeilChunks(loc.mu_law_len)
           /\ loc.exc = "response_audio"

C14_Witness ==
    /\ pc = "finally"
    /\ ~ws_open
    /\ Len(loc.sent) = 1
    /\ loc.closed_at = 1

\* C15: whenever process_audio has returned to the handler's loop, or the
\* handler has ended, the guard is free and no execution is in flight,
\* whichever way process_audio was left.
C15_GuardReleased ==
    (pc \in {"recv", "closed"})
        => /\ ~GuardHeld(processing_locks, Conn)
           /\ inflight = 0

C15_Witness ==
    /\ pc = "recv"
    /\ ws_open
    /\ Len(submitted) >= 1
    /\ ~GuardHeld(processing_locks, Conn)

\* C16: once the connection's handler has ended, no registry holds an entry
\* for the connection.
C16_NoEntryAfterClose ==
    pc = "closed"
        => /\ Conn \notin DOMAIN active_connections
           /\ Conn \notin DOMAIN audio_buffers
           /\ Conn \notin DOMAIN processing_locks
           /\ Conn \notin DOMAIN speech_states
           /\ Conn \notin DOMAIN background_tasks

C16_Witness ==
    /\ pc = "closed"
    /\ Len(submitted) >= 1
    /\ Conn \notin DOMAIN processing_locks
    /\ Conn \notin DOMAIN audio_buffers

\* C17 (as claimed): a malformed inbound message is only dropped: the
\* connection is not terminated and stays registered.
C17_MalformedFrameDropped ==
    last.ev = "malformed"
        => /\ pc # "closed"
           /\ Conn \in DOMAIN active_connections
           /\ Conn \in DOMAIN audio_buffers

\* C18: no error raised while an utterance is processed leaves
\* process_audio: after a failed WAV encoding or debug save the handler is
\* back in its loop, an error of the response handling leads to the finally
\* clause, and from the finally clause the handler returns to its loop with
\* the connection still registered.
C18_ErrorsStayInside ==
    [][ /\ (hist' # hist /\ last'.res = "error")
             => (pc' = "recv" /\ Conn \in DOMAIN active_connections')
        /\ (pc \in PipelinePcs /\ loc.exc = "none" /\ loc'.exc # "none")
             => pc' = "finally"
        /\ pc = "finally"
             => (pc' = "recv" /\ Conn \in DOMAIN active_connections') ]_vars

C18_Witness ==
    /\ pc = "recv"
    /\ last.res = "error"
    /\ ws_open
    /\ Conn \in DOMAIN active_connections

\* C19: whenever SpeechState is present the buffer is non-empty.
C19_ActiveHasAudio ==
    (Conn \in DOMAIN speech_states /\ speech_states[Conn] # <<>>)
        => audio_buffers[Conn] # <<>>

C19_Witness ==
    /\ pc = "recv"
    /\ Conn \in DOMAIN speech_states
    /\ speech_states[Conn] # <<>>
    /\ Len(audio_buffers[Conn]) >= 2
    /\ Len(submitted) >= 1

\* The ids of the frames of utterance u.
IdsOf(u) == {u[i].id : i \in 1..Len(u)}

\* C20: no frame is submitted to transcription twice: the frames of one
\* submitted utterance are distinct, two submitted utterances share no
\* frame, and no frame still in the buffer was submitted before.
C20_SubmittedOnce ==
    /\ \A a \in 1..Len(submitted) :
          /\ Cardinality(IdsOf(submitted[a])) = Len(submitted[a])
          /\ \A b \in 1..Len(submitted) :
                a # b => IdsOf(submitted[a]) \cap IdsOf(submitted[b]) = {}
          /\ Conn \in DOMAIN audio_buffers
                => IdsOf(submitted[a]) \cap IdsOf(audio_buffers[Conn]) = {}

C20_Witness ==
    /\ Len(submitted) = 2
    /\ IdsOf(submitted[1]) \cap IdsOf(submitted[2]) = {}
    /\ Len(submitted[1]) >= 2

\* C21 (as claimed): decoding a mu-law byte to 16-bit PCM and encoding the
\* sample again yields the same byte, for every byte value.
C21_RoundTripIdentity ==
    codec.stage = "ulaw_again" => codec.y = codec.x

\* C21 (amended): decoding a mu-law byte to 16-bit PCM and encoding the
\* sample again yields the same byte for every byte value but 127 (0x7F,
\* the negative zero): 127 and 255 both decode to the sample 0, which
\* encodes as 255.
C21_RoundTripButNegativeZero ==
    codec.stage = "ulaw_again"
        => /\ codec.x # 127 => codec.y = codec.x
           /\ codec.x = 127 => (codec.pcm = 0 /\ codec.y = 255)
           /\ codec.pcm \in (0 - 32124)..32124

C21_Witness ==
    /\ codec.stage = "ulaw_again"
    /\ codec.x = 0
    /\ codec.pcm = 0 - 32124
    /\ codec.y = 0

\* C22: a silent media frame received while the connection has no speech
\* state is discarded: the buffer, the speech state and the guard stay as
\* they are and process_audio is not invoked.
C22_IdleSilentDiscarded ==
    [][ ( /\ Len(hist') = Len(hist) + 1
          /\ hist'[Len(hist')].ev = "media"
          /\ hist'[Len(hist')].rms < SILENCE_THRESHOLD
          /\ speech_states[Conn] = <<>> )
        => /\ UNCHANGED <<audio_buffers, speech_states, processing_locks>>
           /\ UNCHANGED <<pc, loc, inflight, submitted>> ]_vars

C22_Witness ==
    /\ pc = "recv"
    /\ last.ev = "media"
    /\ last.silent
    /\ ~last.appended
    /\ Len(submitted) = 1
    /\ audio_buffers[Conn] = <<>>
    /\ speech_states[Conn] = <<>>
    /\ ~GuardHeld(processing_locks, Conn)

\* The place of an external call in the order transcribe, chat response,
\* translate, synthesize.
CallRank(c) ==
    IF c = "transcribe" THEN 1 ELSE IF c = "chat" THEN 2
    ELSE IF c = "translate" THEN 3 ELSE 4

\* C23 (as claimed): for one utterance the external services are called in
\* the order transcribe, chat response, translate, synthesize, each of them
\* at most once.
C23_OrderedAtMostOnce ==
    \A i \in 1..Len(loc.calls) : \A j \in 1..Len(loc.calls) :
        i < j => CallRank(loc.calls[i]) < CallRank(loc.calls[j])

\* C24 (as claimed): get_audio_duration_ms returns the duration of the
\* buffered 8 kHz mu-law audio, one byte per sample and 8 samples per ms:
\* B / 8 for a buffer of B bytes.
C24_DurationIsBytesOverEight ==
    Conn \in DOMAIN audio_buffers
        => GetAudioDurationMs(audio_buffers[Conn])
               = TotalBytes(audio_buffers[Conn]) \div SAMPLES_PER_MS

\* A speech state is present: an Active episode.
Active == Conn \in DOMAIN speech_states /\ speech_states[Conn] # <<>>

\* The handler waits for a message and the stream of MaxMsgs messages is over.
StreamEnded == pc = "recv" /\ Len(hist) = MaxMsgs

\* C25: while media frames keep arriving and every remote call returns or
\* fails, every Active episode ends with no speech state and an empty
\* buffer: it ends before the frame that arrives 30 s after its start has
\* been handled (in the fair behaviours: eventually, unless the stream of
\* MaxMsgs messages ends first), and the buffer does not grow without
\* bound, also when every attempt fails: the duration process_audio
\* measures of it stays below the 15 s cap.
C25_EpisodeEnds ==
    /\ [](GetAudioDurationMs(audio_buffers[Conn]) < MAX_SPEECH_DURATION_MS)
    /\ [](Active => SpeechDuration(speech_states[Conn], now)
                        < 2 * MAX_SPEECH_DURATION_MS)
    /\ (Active ~> (Cleared \/ StreamEnded))

C25_Witness ==
    /\ pc = "recv"
    /\ last.res = "error"
    /\ last.dur >= MAX_SPEECH_DURATION_MS
    /\ Cleared
    /\ submitted = <<>>
    /\ Len(hist) < MaxMsgs

====
